---- MODULE Spec2Model ----
(***************************************************************************)
(* Model of xlsxmerge.py: load the requested sheets, compile the column    *)
(* list, concatenate every sheet onto an empty frame, write the result.    *)
(*                                                                         *)
(* A DataFrame is a record                                                 *)
(*   columns : sequence of column names (the column Index, ordered)        *)
(*   index   : sequence of row labels                                      *)
(*   rows    : sequence of rows, each a function column name -> cell       *)
(* Cells are tagged tuples: <<"nan">> for a missing value, <<"str", s>>    *)
(* for the string s, <<"num", n>> for the integer n and                    *)
(* <<"cell", k, r, c>> for the value read from row r, column c of the k-th *)
(* table read (pairwise distinct, so that a misplaced cell is visible).    *)
(***************************************************************************)
EXTENDS Integers, Sequences, FiniteSets, TLC

VARIABLES pc, args, fi, frames, columns, outframe, i, written, loaded

vars == <<pc, args, fi, frames, columns, outframe, i, written, loaded>>

\* Bounds of the model.
MaxFrames == 2
MaxRows == 2

Range(s) == {s[j] : j \in DOMAIN s}

NaN == <<"nan">>
Str(s) == <<"str", s>>
Num(n) == <<"num", n>>

\* Python's None for the sheet list (a given sheet list is never empty).
None == <<>>

\* Column names that occur in the workbooks, in Python's string order.
ColOrder == <<"A", "B", "Type">>

\* Column headers a sheet can have (an empty sheet has none).
SheetColumns == {<<>>, <<"A">>, <<"B", "A">>, <<"Type", "B">>}

\* Sheet names of each workbook on disk, in workbook order.
Workbook(path) == IF path = "p1.xlsx" THEN <<"s1", "s2">> ELSE <<"s2">>

\* The -infiles occurrences a command line is built from.
FileArgs == {<<"p1.xlsx">>, <<"p2.xlsx", "s2">>}

\* The -outfile values.
OutArgs == {<<"out.xlsx">>}

(***************************************************************************)
(* pandas                                                                  *)
(***************************************************************************)

\* pandas.DataFrame(columns=cols): no rows.
DataFrame(cols) == [columns |-> cols, index |-> <<>>, rows |-> <<>>]

\* Index.sort_values on column names.
sort_values(idx) == SelectSeq(ColOrder, LAMBDA c : c \in Range(idx))

\* Index.intersection / Index.union, keeping the left operand's order.
intersection(a, b) == SelectSeq(a, LAMBDA c : c \in Range(b))
union(a, b) == a \o SelectSeq(b, LAMBDA c : c \notin Range(a))

\* The combined non-concatenation axis of concat.
get_combined_index(a, b, intersect, sort) ==
    LET idx == IF intersect THEN intersection(a, b) ELSE union(a, b)
    IN  IF sort THEN sort_values(idx) ELSE idx

\* Align one row to the column list cols: missing cells become NaN.
reindex(row, cols) ==
    [c \in Range(cols) |-> IF c \in DOMAIN row THEN row[c] ELSE NaN]

RangeIndex(n) == [r \in 1..n |-> r - 1]

\* pandas.concat((a, b), ignore_index=, sort=, join=) along the rows.
concat(a, b, ignore_index, sort, join) ==
    LET cols == get_combined_index(a.columns, b.columns, join = "inner", sort)
        rows == [r \in 1..Len(a.rows) |-> reindex(a.rows[r], cols)]
                \o [r \in 1..Len(b.rows) |-> reindex(b.rows[r], cols)]
    IN  [columns |-> cols,
         index   |-> IF ignore_index THEN RangeIndex(Len(rows))
                     ELSE a.index \o b.index,
         rows    |-> rows]

\* df[c] = v for a scalar v: overwrite column c, or add it as the last column.
setitem(df, c, v) ==
    [columns |-> IF c \in Range(df.columns) THEN df.columns
                 ELSE Append(df.columns, c),
     index   |-> df.index,
     rows    |-> [r \in 1..Len(df.rows) |->
                    [x \in DOMAIN df.rows[r] \cup {c} |->
                        IF x = c THEN v ELSE df.rows[r][x]]]]

\* DataFrame.to_excel(path, sheet_name=, index=): the sheet that is written.
to_excel(df, path, sheet_name, index) ==
    [path   |-> path,
     sheet  |-> sheet_name,
     header |-> (IF index THEN <<"">> ELSE <<>>) \o df.columns,
     body   |-> [r \in 1..Len(df.rows) |->
                    (IF index THEN <<Num(df.index[r])>> ELSE <<>>)
                    \o [j \in 1..Len(df.columns) |-> df.rows[r][df.columns[j]]]]]

\* The tables a sheet can hold; k numbers the table among all tables read.
TableShapes ==
    {sh \in [columns : SheetColumns, nrows : 0..MaxRows] :
        sh.columns = <<>> => sh.nrows = 0}

MakeTable(sh, k) ==
    [columns |-> sh.columns,
     index   |-> RangeIndex(sh.nrows),
     rows    |-> [r \in 1..sh.nrows |->
                    [c \in Range(sh.columns) |-> <<"cell", k, r, c>>]]]

\* pandas.read_excel(path, sheetnames): the possible dicts, as sequences of
\* <<sheet name, DataFrame>> items; base tables were read before.
read_excel(path, sheetnames, base) ==
    LET names == IF sheetnames = None THEN Workbook(path) ELSE sheetnames
    IN  {[j \in 1..Len(names) |-> <<names[j], MakeTable(shapes[j], base + j)>>] :
            shapes \in [1..Len(names) -> TableShapes]}

(***************************************************************************)
(* xlsxmerge.py                                                            *)
(***************************************************************************)

NumSheets(f) == IF Len(f) > 1 THEN Len(f) - 1 ELSE Len(Workbook(f[1]))

RECURSIVE TotalSheets(_)
TotalSheets(fs) == IF fs = <<>> THEN 0 ELSE NumSheets(Head(fs)) + TotalSheets(Tail(fs))

\* The -infiles lists a command line can carry.
Filenames ==
    {fs \in UNION {[1..n -> FileArgs] : n \in 1..MaxFrames} :
        TotalSheets(fs) <= MaxFrames}

\* parseArgs: the dictionaries it can return.
parseArgs ==
    [filenames           : Filenames,
     outpath             : OutArgs,
     include_type        : BOOLEAN,
     common_columns_only : BOOLEAN,
     include_index       : BOOLEAN]

\* Variant: the items are keyed by the file path.
loadSheetsItemsByPath(path, data) == [j \in 1..Len(data) |-> <<path, data[j][2]>>]

\* loadSheets, one iteration: frames.extend(list(data.items())).
loadSheetsItems(path, data) == data

\* Variant: add_type is ignored.
compileColumnsNoType(fs, add_type) ==
    UNION {Range(fs[k][2].columns) : k \in DOMAIN fs}

\* Variant: the loop over frames returns after the first frame.
compileColumnsFirstOnly(fs, add_type) ==
    (IF add_type THEN {"Type"} ELSE {})
    \cup (IF fs = <<>> THEN {} ELSE Range(fs[1][2].columns))

\* compileColumns before the list() conversion: the set of column names.
compileColumns(fs, add_type) ==
    (IF add_type THEN {"Type"} ELSE {})
    \cup UNION {Range(fs[k][2].columns) : k \in DOMAIN fs}

\* list(columns): a set converts to a list in an unspecified order.
list(S) ==
    {s \in [1..Cardinality(S) -> S] : \A x, y \in DOMAIN s : s[x] = s[y] => x = y}

\* Variants: the flag is ignored.
JoinInner(common_columns_only) == "inner"
JoinOuter(common_columns_only) == "outer"

\* join = 'inner' if args['common_columns_only'] else 'outer'
Join(common_columns_only) == IF common_columns_only THEN "inner" ELSE "outer"

\* if args['include_type']: f[1]['Type'] = f[0]
StampType(f, include_type) ==
    IF include_type THEN <<f[1], setitem(f[2], "Type", Str(f[1]))>> ELSE f

\* Variant: the new table is put before the accumulated rows.
MergeConcatReversed(out, df, join) == concat(df, out, TRUE, TRUE, join)

\* Variant: rows without any value are dropped (dropna(how='all')).
MergeConcatDropna(out, df, join) ==
    LET res == concat(out, df, TRUE, TRUE, join)
        kept == SelectSeq(res.rows, LAMBDA row : \E c \in DOMAIN row : row[c] # NaN)
    IN  [columns |-> res.columns, index |-> RangeIndex(Len(kept)), rows |-> kept]

\* Variant: sort=False.
MergeConcatUnsorted(out, df, join) == concat(out, df, TRUE, FALSE, join)

\* Variant: ignore_index=False.
MergeConcatKeepIndex(out, df, join) == concat(out, df, FALSE, TRUE, join)

\* Variant: the new table's cells are aligned by column position, not by name.
MergeConcatByPosition(out, df, join) ==
    LET res == concat(out, df, TRUE, TRUE, join)
        n == Len(out.rows)
        pos(c) == CHOOSE j \in 1..Len(res.columns) : res.columns[j] = c
    IN  [res EXCEPT !.rows =
            [r \in 1..Len(res.rows) |->
                IF r <= n THEN res.rows[r]
                ELSE [c \in Range(res.columns) |->
                        IF pos(c) <= Len(df.columns)
                        THEN df.rows[r - n][df.columns[pos(c)]] ELSE NaN]]]

\* outframe = pandas.concat((outframe, f[1]), ignore_index=True, sort=True, join=join)
MergeConcat(out, df, join) == concat(out, df, TRUE, TRUE, join)

\* sheet_name = args['outpath'][1] if len(args['outpath']) > 1 else 'Sheet1'
SheetName(outpath) == IF Len(outpath) > 1 THEN outpath[2] ELSE "Sheet1"

NoFrame == DataFrame(<<>>)
NotWritten == [path |-> "", sheet |-> "", header |-> <<>>, body |-> <<>>]

Init ==
    /\ pc = "load"
    /\ args \in parseArgs
    /\ fi = 1
    /\ frames = <<>>
    /\ columns = <<>>
    /\ outframe = NoFrame
    /\ i = 0
    /\ written = NotWritten
    /\ loaded = <<>>

\* loadSheets: one iteration of the loop over filenames.
LoadFile ==
    /\ pc = "load"
    /\ fi <= Len(args.filenames)
    /\ LET f == args.filenames[fi]
           path == f[1]
           sheetnames == IF Len(f) > 1 THEN Tail(f) ELSE None
       IN  \E data \in read_excel(path, sheetnames, Len(frames)) :
              /\ frames' = frames \o loadSheetsItems(path, data)
              /\ loaded' = loaded \o [j \in 1..Len(data) |->
                              [path |-> path, sheet |-> data[j][1], df |-> data[j][2]]]
    /\ fi' = fi + 1
    /\ pc' = IF fi = Len(args.filenames) THEN "compile" ELSE "load"
    /\ UNCHANGED <<args, columns, outframe, i, written>>

\* main: compileColumns and the empty outframe.
CompileColumns ==
    /\ pc = "compile"
    /\ \E cols \in list(compileColumns(frames, args.include_type)) :
          /\ columns' = cols
          /\ outframe' = DataFrame(cols)
    /\ i' = 1
    /\ pc' = "merge"
    /\ UNCHANGED <<args, fi, frames, written, loaded>>

\* main: one iteration of the merge loop.
MergeStep ==
    /\ pc = "merge"
    /\ i <= Len(frames)
    /\ LET f == StampType(frames[i], args.include_type)
       IN  /\ frames' = [frames EXCEPT ![i] = f]
           /\ outframe' = MergeConcat(outframe, f[2], Join(args.common_columns_only))
    /\ i' = i + 1
    /\ UNCHANGED <<pc, args, fi, columns, written, loaded>>

\* main: save to file.
Save ==
    /\ pc = "merge"
    /\ i > Len(frames)
    /\ written' = to_excel(outframe, args.outpath[1], SheetName(args.outpath),
                           args.include_index)
    /\ pc' = "done"
    /\ UNCHANGED <<args, fi, frames, columns, outframe, i, loaded>>

Next == LoadFile \/ CompileColumns \/ MergeStep \/ Save

Spec == Init /\ [][Next]_vars

(***************************************************************************)
(* compileColumns and the merge loop on a list of frames given directly    *)
(* (the empty list included), without loadSheets.                          *)
(***************************************************************************)

\* Sheet name of the k-th frame.
CoreName(k) == IF k % 2 = 1 THEN "s1" ELSE "s2"

CoreFrames ==
    UNION {{[k \in 1..n |-> <<CoreName(k), MakeTable(shapes[k], k)>>] :
              shapes \in [1..n -> TableShapes]} : n \in 0..MaxFrames}

InitCore ==
    /\ pc = "compile"
    /\ args \in [filenames           : {<<>>},
                 outpath             : OutArgs,
                 include_type        : BOOLEAN,
                 common_columns_only : BOOLEAN,
                 include_index       : BOOLEAN]
    /\ fi = 1
    /\ frames \in CoreFrames
    /\ loaded = [k \in 1..Len(frames) |->
                    [path |-> "", sheet |-> frames[k][1], df |-> frames[k][2]]]
    /\ columns = <<>>
    /\ outframe = NoFrame
    /\ i = 0
    /\ written = NotWritten

NextCore == CompileColumns \/ MergeStep \/ Save

SpecCore == InitCore /\ [][NextCore]_vars

(***************************************************************************)
(* Properties                                                              *)
(***************************************************************************)

\* Number of frames already appended to outframe.
Merged == IF pc = "merge" THEN i - 1 ELSE IF pc = "done" THEN Len(frames) ELSE 0

InLoop == pc \in {"merge", "done"}

\* The rows of the first m loaded tables in load order, as <<table, row>>.
RECURSIVE SourceRows(_)
SourceRows(m) ==
    IF m = 0 THEN <<>>
    ELSE SourceRows(m - 1) \o [r \in 1..Len(loaded[m].df.rows) |-> <<m, r>>]

RECURSIVE RowSum(_)
RowSum(m) == IF m = 0 THEN 0 ELSE RowSum(m - 1) + Len(loaded[m].df.rows)

LoadedColumns == UNION {Range(loaded[k].df.columns) : k \in DOMAIN loaded}
LoadedCommon ==
    {c \in LoadedColumns : \A k \in DOMAIN loaded : c \in Range(loaded[k].df.columns)}
TypeIf(b) == IF b THEN {"Type"} ELSE {}

\* main's merge loop run again from the frames as loaded, starting from the
\* column list q.
RECURSIVE MergeLoop(_, _, _)
MergeLoop(fs, out, k) ==
    IF k > Len(fs) THEN out
    ELSE MergeLoop(fs,
                   MergeConcat(out, StampType(fs[k], args.include_type)[2],
                               Join(args.common_columns_only)),
                   k + 1)

FramesAsLoaded == [k \in DOMAIN loaded |-> <<loaded[k].sheet, loaded[k].df>>]

HeaderFrom(q) ==
    to_excel(MergeLoop(FramesAsLoaded, DataFrame(q), 1), args.outpath[1],
             SheetName(args.outpath), args.include_index).header

\* C1: the rows of the merged table are the rows of the loaded tables in load
\* order, each table's rows in their original order: the p-th merged row
\* holds only values of the p-th row of the concatenation, in both join modes
\* and with or without the Type column.
C1_RowOrder ==
    InLoop =>
        LET src == SourceRows(Merged)
        IN  /\ Len(outframe.rows) = Len(src)
            /\ \A p \in 1..Len(src) : \A c \in DOMAIN outframe.rows[p] :
                  LET v == outframe.rows[p][c]
                  IN  v[1] = "cell" => v[2] = src[p][1] /\ v[3] = src[p][2]

C1_Witness ==
    /\ pc = "done"
    /\ Len(loaded) >= 2
    /\ Len(loaded[1].df.rows) >= 2
    /\ Len(loaded[2].df.rows) >= 2
    /\ \A p \in 1..Len(outframe.rows) :
          \E c \in DOMAIN outframe.rows[p] : outframe.rows[p][c][1] = "cell"

\* C2: after the merge loop the merged table has as many rows as all loaded
\* tables together, also for tables without rows and tables without a common
\* column, in both join modes.
C2_RowCount ==
    pc = "done" =>
        /\ Len(outframe.rows) = RowSum(Len(loaded))
        /\ Len(outframe.index) = RowSum(Len(loaded))
        /\ Len(written.body) = RowSum(Len(loaded))

C2_Witness ==
    /\ pc = "done"
    /\ args.common_columns_only
    /\ outframe.columns = <<>>
    /\ Len(outframe.rows) >= 2
    /\ \E k \in DOMAIN loaded : loaded[k].df.rows = <<>>

\* C3: in union mode the merged table's columns are the union of the loaded
\* tables' columns, plus "Type" when include_type is on.
C3_UnionColumns ==
    (pc = "done" /\ ~args.common_columns_only) =>
        /\ Range(outframe.columns) = LoadedColumns \cup TypeIf(args.include_type)
        /\ Cardinality(Range(outframe.columns)) = Len(outframe.columns)

C3_Witness ==
    /\ pc = "done"
    /\ ~args.common_columns_only
    /\ \E k \in DOMAIN loaded :
          /\ Range(loaded[k].df.columns) # LoadedColumns
          /\ loaded[k].df.rows # <<>>
    /\ LoadedCommon = {}

\* C4 as stated: in intersection mode the merged table's columns are the
\* intersection of the loaded tables' columns, with include_type on or off.
C4_IntersectionAsLoaded ==
    (pc = "done" /\ args.common_columns_only /\ loaded # <<>>) =>
        Range(outframe.columns) = LoadedCommon

\* C4 amended: in intersection mode the merged table's columns are the
\* intersection of the loaded tables' columns, plus "Type" when include_type
\* is on.
C4_IntersectionColumns ==
    (pc = "done" /\ args.common_columns_only /\ loaded # <<>>) =>
        /\ Range(outframe.columns) = LoadedCommon \cup TypeIf(args.include_type)
        /\ Cardinality(Range(outframe.columns)) = Len(outframe.columns)

C4_Witness ==
    /\ pc = "done"
    /\ args.common_columns_only
    /\ args.include_type
    /\ "Type" \notin LoadedCommon
    /\ LoadedCommon # {}
    /\ LoadedColumns # LoadedCommon

\* C5: with include_type on the merged table has a "Type" column and every
\* row's Type cell is the sheet name of the table the row came from, also
\* where that table had a Type column of its own.
C5_TypeIsSheetName ==
    (InLoop /\ args.include_type) =>
        LET src == SourceRows(Merged)
        IN  /\ "Type" \in Range(outframe.columns)
            /\ Len(outframe.rows) = Len(src)
            /\ \A p \in 1..Len(src) :
                  outframe.rows[p]["Type"] = Str(loaded[src[p][1]].sheet)

C5_Witness ==
    /\ pc = "done"
    /\ args.include_type
    /\ \E k \in DOMAIN loaded :
          "Type" \in Range(loaded[k].df.columns) /\ loaded[k].df.rows # <<>>
    /\ \E k \in DOMAIN loaded :
          "Type" \notin Range(loaded[k].df.columns) /\ loaded[k].df.rows # <<>>

\* C6: the written column order does not depend on the order list(set) gave
\* the initial frame's columns: every such order leads to the header that
\* was written.
C6_ColumnOrderDeterministic ==
    pc = "done" =>
        \A q \in list(compileColumns(FramesAsLoaded, args.include_type)) :
            HeaderFrom(q) = written.header

C6_Witness ==
    /\ pc = "done"
    /\ Len(columns) >= 2
    /\ columns # sort_values(columns)
    /\ Len(outframe.columns) >= 2

\* C7: with include_index on the written sheet has one more column, holding
\* 0, 1, ..., n-1 in row order, whatever row labels the loaded tables had.
C7_IndexColumn ==
    (pc = "done" /\ args.include_index) =>
        /\ Len(written.header) = Len(outframe.columns) + 1
        /\ Len(written.body) = Len(outframe.rows)
        /\ \A r \in 1..Len(written.body) :
              /\ Len(written.body[r]) = Len(outframe.columns) + 1
              /\ written.body[r][1] = Num(r - 1)

C7_Witness ==
    /\ pc = "done"
    /\ args.include_index
    /\ Len(loaded) >= 2
    /\ Len(loaded[1].df.rows) >= 2
    /\ Len(loaded[2].df.rows) >= 2

\* C8: every merged row has exactly the merged columns; its cell for column
\* c is the cell of the source row (after the Type stamp) when the source
\* table has column c and is missing otherwise; source columns outside the
\* merged columns contribute nothing.
C8_Reprojection ==
    InLoop =>
        LET src == SourceRows(Merged)
        IN  /\ Len(outframe.rows) = Len(src)
            /\ \A p \in 1..Len(src) :
                  LET df == frames[src[p][1]][2]
                      row == df.rows[src[p][2]]
                  IN  /\ DOMAIN outframe.rows[p] = Range(outframe.columns)
                      /\ \A c \in Range(outframe.columns) :
                            outframe.rows[p][c] =
                                IF c \in Range(df.columns) THEN row[c] ELSE NaN

C8_Witness ==
    /\ pc = "done"
    /\ \E p \in 1..Len(outframe.rows) : \E c, d \in DOMAIN outframe.rows[p] :
          outframe.rows[p][c] = NaN /\ outframe.rows[p][d][1] = "cell"
    /\ \E k \in DOMAIN frames :
          /\ frames[k][2].rows # <<>>
          /\ Range(frames[k][2].columns) # Range(loaded[k].df.columns)

\* C9 as stated: in every state of the merge loop the accumulating table's
\* column set is the one compileColumns computed, in both join modes.
C9_ColumnSetStable ==
    InLoop => Range(outframe.columns) = Range(columns)

\* C9 amended: in union mode, in every state of the merge loop the
\* accumulating table's column set is the one compileColumns computed.
C9_ColumnSetStableUnion ==
    (InLoop /\ ~args.common_columns_only) =>
        Range(outframe.columns) = Range(columns)

C9_Witness ==
    /\ pc = "merge"
    /\ ~args.common_columns_only
    /\ i > 2
    /\ \A k \in 1..(i - 1) : Range(frames[k][2].columns) # Range(columns)

====
